---- MODULE Spec2Model ----
(***************************************************************************)
(* Case-insensitive equality, ordering and hashing of the unicase crate:   *)
(* the ASCII wrapper UniCase<S> (src/lib.rs), the folding wrapper          *)
(* Unicode<S> with its Fold iterator and UTF-8 emitter                     *)
(* (src/unicode/mod.rs) and the borrowed-key view UniCaseNoOpt<str>        *)
(* (src/noopt.rs).                                                         *)
(*                                                                         *)
(* A string is the sequence of its Unicode scalar values (what             *)
(* str::chars() yields); str::bytes() is its UTF-8 encoding.  A hasher is  *)
(* observed through the bytes written to it, in order.                     *)
(***************************************************************************)
EXTENDS Integers, Sequences, FiniteSets, TLC

(* ------------------------------ bounds -------------------------------- *)

\* Longest string compared or hashed.
MaxLen == 3

\* Most next() calls made on one Fold.
MaxCalls == 5

\* Most keys held by the hash set.
MaxKeys == 2

\* Longest key stored in, or looked up in, the hash set.
MaxKeyLen == 2

(* ----------------------------- alphabet ------------------------------- *)

\* 'F' U+0046, 'f' U+0066, 'i' U+0069 (one UTF-8 byte each),
\* LATIN SMALL LIGATURE FF U+FB00 and LATIN SMALL LIGATURE FFI U+FB03
\* (three UTF-8 bytes each).
Alphabet == {70, 102, 105, 64256, 64259}

RECURSIVE StringsOfLen(_)
StringsOfLen(n) ==
    IF n = 0 THEN {<<>>}
    ELSE {Append(s, ch) : s \in StringsOfLen(n - 1), ch \in Alphabet}

StringsUpTo(n) == UNION {StringsOfLen(k) : k \in 0..n}

Strings == StringsUpTo(MaxLen)

Keys == StringsUpTo(MaxKeyLen)

IsAscii(s) == \A i \in DOMAIN s : s[i] <= 127

(* ------------------------ integer bit operations ----------------------- *)

RECURSIVE BitAnd(_, _)
BitAnd(x, y) ==
    IF x = 0 \/ y = 0 THEN 0
    ELSE (IF (x % 2) = 1 /\ (y % 2) = 1 THEN 1 ELSE 0) + 2 * BitAnd(x \div 2, y \div 2)

RECURSIVE BitOr(_, _)
BitOr(x, y) ==
    IF x = 0 THEN y
    ELSE IF y = 0 THEN x
    ELSE (IF (x % 2) = 1 \/ (y % 2) = 1 THEN 1 ELSE 0) + 2 * BitOr(x \div 2, y \div 2)

Shr(x, n) == x \div (2 ^ n)

\* `as u8`: truncation to the low eight bits.
AsU8(x) == x % 256

(* --------------------------- std: str, u8 ------------------------------ *)

\* str::bytes(): the UTF-8 encoding the string is stored in.
StrBytesOfChar(cp) ==
    IF cp < 128 THEN <<cp>>
    ELSE IF cp < 2048 THEN <<192 + (cp \div 64), 128 + (cp % 64)>>
    ELSE IF cp < 65536 THEN
        <<224 + (cp \div 4096), 128 + ((cp \div 64) % 64), 128 + (cp % 64)>>
    ELSE <<240 + (cp \div 262144), 128 + ((cp \div 4096) % 64),
           128 + ((cp \div 64) % 64), 128 + (cp % 64)>>

RECURSIVE bytes(_)
bytes(s) ==
    IF s = <<>> THEN <<>> ELSE StrBytesOfChar(Head(s)) \o bytes(Tail(s))

\* str::chars()
chars(s) == s

\* u8::to_ascii_lowercase / char::to_ascii_lowercase: only 'A'..='Z' change.
to_ascii_lowercase(x) == IF x >= 65 /\ x <= 90 THEN BitOr(x, 32) ELSE x

\* Iterator::zip: pairs until either side ends.
Zip(x, y) ==
    [i \in 1..(IF Len(x) <= Len(y) THEN Len(x) ELSE Len(y)) |-> <<x[i], y[i]>>]

\* Iterator::all, on what the closure returns for each item.
All(tests) == \A i \in DOMAIN tests : tests[i]

\* [u8]::eq_ignore_ascii_case, by way of str::eq_ignore_ascii_case.
eq_ignore_ascii_case(x, y) ==
    /\ Len(bytes(x)) = Len(bytes(y))
    /\ LET z == Zip(bytes(x), bytes(y))
       IN  All([i \in DOMAIN z |->
                   to_ascii_lowercase(z[i][1]) = to_ascii_lowercase(z[i][2])])

\* Iterator::cmp: lexicographic, a strict prefix orders first.
RECURSIVE IterCmp(_, _)
IterCmp(x, y) ==
    IF x = <<>> THEN (IF y = <<>> THEN "Equal" ELSE "Less")
    ELSE IF y = <<>> THEN "Greater"
    ELSE IF Head(x) < Head(y) THEN "Less"
    ELSE IF Head(x) > Head(y) THEN "Greater"
    ELSE IterCmp(Tail(x), Tail(y))

(* --------------------------- unicode::fold ----------------------------- *)

\* enum Fold: the variant is the number of code points held;
\* Zero = <<>>, One(a) = <<a>>, Two(a, b) = <<a, b>>, Three(a, b, c) = <<a, b, c>>.
FoldFrom1(one) == <<one>>
FoldFrom2(one, two) == <<one, two>>
FoldFrom3(one, two, three) == <<one, two, three>>

\* Fold::next with Three stepping to One(two): a step of the countdown lost.
FoldNextSkipping(self) ==
    CASE Len(self) = 0 -> [item |-> <<>>, self |-> <<>>]
      [] Len(self) = 1 -> [item |-> <<self[1]>>, self |-> <<>>]
      [] Len(self) = 2 -> [item |-> <<self[1]>>, self |-> <<self[2]>>]
      [] Len(self) = 3 -> [item |-> <<self[3]>>, self |-> <<self[2]>>]

\* Fold::next: the item returned (<<>> for None, <<x>> for Some(x)) and the
\* value left in *self.
FoldNext(self) ==
    CASE Len(self) = 0 -> [item |-> <<>>, self |-> <<>>]
      [] Len(self) = 1 -> [item |-> <<self[1]>>, self |-> <<>>]
      [] Len(self) = 2 -> [item |-> <<self[1]>>, self |-> <<self[2]>>]
      [] Len(self) = 3 -> [item |-> <<self[3]>>, self |-> <<self[1], self[2]>>]

\* Fold::size_hint: the lower bound and the upper bound (<<k>> for Some(k)).
FoldSizeHint(self) ==
    CASE Len(self) = 0 -> <<0, <<0>>>>
      [] Len(self) = 1 -> <<1, <<1>>>>
      [] Len(self) = 2 -> <<2, <<2>>>>
      [] Len(self) = 3 -> <<3, <<3>>>>

\* What a Fold yields until it returns None.
RECURSIVE FoldDrain(_)
FoldDrain(self) ==
    LET r == FoldNext(self)
    IN  IF r.item = <<>> THEN <<>> ELSE r.item \o FoldDrain(r.self)

\* unicode::map::lookup, the case-folding table, on the alphabet:
\* 'F' folds to 'f', the ligatures to their letters, the rest to itself.
lookup(orig) ==
    CASE orig = 70    -> FoldFrom1(102)
      [] orig = 64256 -> FoldFrom2(102, 102)
      [] orig = 64259 -> FoldFrom3(102, 102, 105)
      [] OTHER        -> FoldFrom1(orig)

\* chars().flat_map(lookup)
RECURSIVE FlatMapLookup(_)
FlatMapLookup(s) ==
    IF s = <<>> THEN <<>>
    ELSE FoldDrain(lookup(Head(s))) \o FlatMapLookup(Tail(s))

(* ------------------------- unicode::char_to_utf8 ----------------------- *)

TAG_CONT == 128
TAG_TWO_B == 192
TAG_THREE_B == 224
TAG_FOUR_B == 240

\* char_to_utf8 with the mask of the middle byte of three left out.
char_to_utf8Unmasked(code, dst) ==
    IF code <= 127 THEN
        [dst |-> [dst EXCEPT ![1] = AsU8(code)], len |-> 1]
    ELSE IF code <= 2047 THEN
        [dst |-> [dst EXCEPT
                    ![1] = BitOr(AsU8(BitAnd(Shr(code, 6), 31)), TAG_TWO_B),
                    ![2] = BitOr(AsU8(BitAnd(code, 63)), TAG_CONT)],
         len |-> 2]
    ELSE IF code <= 65535 THEN
        [dst |-> [dst EXCEPT
                    ![1] = BitOr(AsU8(BitAnd(Shr(code, 12), 15)), TAG_THREE_B),
                    ![2] = BitOr(AsU8(Shr(code, 6)), TAG_CONT),
                    ![3] = BitOr(AsU8(BitAnd(code, 63)), TAG_CONT)],
         len |-> 3]
    ELSE
        [dst |-> [dst EXCEPT
                    ![1] = BitOr(AsU8(BitAnd(Shr(code, 18), 7)), TAG_FOUR_B),
                    ![2] = BitOr(AsU8(BitAnd(Shr(code, 12), 63)), TAG_CONT),
                    ![3] = BitOr(AsU8(BitAnd(Shr(code, 6), 63)), TAG_CONT),
                    ![4] = BitOr(AsU8(BitAnd(code, 63)), TAG_CONT)],
         len |-> 4]

\* char_to_utf8: the buffer as it is left, and the length returned.
char_to_utf8(code, dst) ==
    IF code <= 127 THEN
        [dst |-> [dst EXCEPT ![1] = AsU8(code)], len |-> 1]
    ELSE IF code <= 2047 THEN
        [dst |-> [dst EXCEPT
                    ![1] = BitOr(AsU8(BitAnd(Shr(code, 6), 31)), TAG_TWO_B),
                    ![2] = BitOr(AsU8(BitAnd(code, 63)), TAG_CONT)],
         len |-> 2]
    ELSE IF code <= 65535 THEN
        [dst |-> [dst EXCEPT
                    ![1] = BitOr(AsU8(BitAnd(Shr(code, 12), 15)), TAG_THREE_B),
                    ![2] = BitOr(AsU8(BitAnd(Shr(code, 6), 63)), TAG_CONT),
                    ![3] = BitOr(AsU8(BitAnd(code, 63)), TAG_CONT)],
         len |-> 3]
    ELSE
        [dst |-> [dst EXCEPT
                    ![1] = BitOr(AsU8(BitAnd(Shr(code, 18), 7)), TAG_FOUR_B),
                    ![2] = BitOr(AsU8(BitAnd(Shr(code, 12), 63)), TAG_CONT),
                    ![3] = BitOr(AsU8(BitAnd(Shr(code, 6), 63)), TAG_CONT),
                    ![4] = BitOr(AsU8(BitAnd(code, 63)), TAG_CONT)],
         len |-> 4]

(* ------------------------------- Hasher -------------------------------- *)

\* What a hasher has been fed: the bytes of its write calls, in order.  A
\* hash value is a function of these bytes alone, and two values are taken
\* to hash alike exactly when they feed the same bytes.
RECURSIVE finish(_)
finish(writes) ==
    IF writes = <<>> THEN <<>> ELSE Head(writes) \o finish(Tail(writes))

(* ------------------------------ Unicode<S> ----------------------------- *)

\* impl PartialEq for Unicode: zip(..).all(|(a, b)| a == b)
UnicodeEq(x, y) ==
    LET z == Zip(FlatMapLookup(chars(x)), FlatMapLookup(chars(y)))
    IN  All([i \in DOMAIN z |-> z[i][1] = z[i][2]])

\* impl Ord for Unicode
UnicodeCmp(x, y) == IterCmp(FlatMapLookup(chars(x)), FlatMapLookup(chars(y)))

\* The loop of Unicode's hash: one write of buf[..len] per folded code point.
RECURSIVE HashLoop(_, _)
HashLoop(cs, buf) ==
    IF cs = <<>> THEN <<>>
    ELSE LET r == char_to_utf8(Head(cs), buf)
         IN  <<SubSeq(r.dst, 1, r.len)>> \o HashLoop(Tail(cs), r.dst)

\* Unicode's hash with the folding left out: the characters as written.
UnicodeHashUnfolded(x) == HashLoop(chars(x), <<0, 0, 0, 0>>)

\* impl Hash for Unicode: the writes made to the hasher.
UnicodeHash(x) == HashLoop(FlatMapLookup(chars(x)), <<0, 0, 0, 0>>)

(* ------------------------------ UniCase<S> ----------------------------- *)

\* impl PartialEq for UniCase
UniCaseEq(x, y) == eq_ignore_ascii_case(x, y)

\* UniCase's hash with the lowering left out: the bytes as stored.
UniCaseHashRaw(x) == [i \in DOMAIN bytes(x) |-> <<bytes(x)[i]>>]

\* impl Hash for UniCase: one write of one byte per lowered byte.
UniCaseHash(x) ==
    [i \in DOMAIN bytes(x) |-> <<to_ascii_lowercase(bytes(x)[i])>>]

\* UniCase's cmp with the lowering left out: the characters as written.
UniCaseCmpRaw(x, y) == IterCmp(chars(x), chars(y))

\* impl Ord for UniCase: the lowered characters, compared as iterators.
UniCaseCmp(x, y) ==
    IterCmp([i \in DOMAIN chars(x) |-> to_ascii_lowercase(chars(x)[i])],
            [i \in DOMAIN chars(y) |-> to_ascii_lowercase(chars(y)[i])])

(* --------------------------- UniCaseNoOpt<str> ------------------------- *)

\* UniCaseNoOpt::from_ref: the same text, seen as the view.
from_ref(s) == s

\* impl Borrow<UniCaseNoOpt<str>> for UniCase
borrow(x) == from_ref(x)

\* impl PartialEq for UniCaseNoOpt<str>
NoOptEq(x, y) == UnicodeEq(x, y)

\* impl Hash for UniCaseNoOpt
NoOptHash(x) == UnicodeHash(x)

(* ---------------------- HashSet<UniCase<String>> ----------------------- *)

\* HashSet::insert: the key is added unless an equal key of the same hash
\* is held; stored keys are hashed and compared as UniCase<String>.
HashSetInsert(keys, k) ==
    IF \E e \in keys : /\ finish(UniCaseHash(e)) = finish(UniCaseHash(k))
                        /\ UniCaseEq(e, k)
    THEN keys
    ELSE keys \cup {k}

\* HashSet::contains(&UniCaseNoOpt<str>): the query is hashed as the view
\* and compared with the borrow of each stored key of that hash.
HashSetContains(keys, query) ==
    \E e \in keys : /\ finish(UniCaseHash(e)) = finish(NoOptHash(query))
                     /\ NoOptEq(query, borrow(e))

(* ------------------------------- state --------------------------------- *)

VARIABLES
    a,      \* the text of the left operand (self)
    b,      \* the text of the right operand (other)
    op,     \* the operation last applied
    out,    \* what it returned, or the writes it made to the hasher
    hm,     \* the keys of a HashSet<UniCase<String>>
    q,      \* the text last looked up in it
    found,  \* what contains returned
    built,  \* the code points a Fold was built from, as the table lists them
    fold,   \* that Fold, as next() has left it
    yielded,\* the code points next() has returned so far
    calls,  \* the number of next() calls made
    code,   \* the character given to char_to_utf8
    buf     \* the caller's four-byte buffer

vars == <<a, b, op, out, hm, q, found, built, fold, yielded, calls, code, buf>>

iterVars == <<built, fold, yielded, calls>>

encVars == <<code, buf>>

\* A behaviour is one call: the operands are wrapped (op = "new"), then one
\* operation is applied to them.  The operations are pure and leave their
\* operands alone, so every outcome is one step from an initial state.

\* UniCase(a) == UniCase(b)
UniCase_eq ==
    /\ op = "new"
    /\ op' = "UniCase::eq"
    /\ out' = UniCaseEq(a, b)
    /\ UNCHANGED <<a, b, hm, q, found, iterVars, encVars>>

\* UniCase(a).hash(hasher)
UniCase_hash ==
    /\ op = "new"
    /\ op' = "UniCase::hash"
    /\ out' = UniCaseHash(a)
    /\ UNCHANGED <<a, b, hm, q, found, iterVars, encVars>>

\* UniCase(a).cmp(&UniCase(b))
UniCase_cmp ==
    /\ op = "new"
    /\ op' = "UniCase::cmp"
    /\ out' = UniCaseCmp(a, b)
    /\ UNCHANGED <<a, b, hm, q, found, iterVars, encVars>>

\* Unicode(a) == Unicode(b)
Unicode_eq ==
    /\ op = "new"
    /\ op' = "Unicode::eq"
    /\ out' = UnicodeEq(a, b)
    /\ UNCHANGED <<a, b, hm, q, found, iterVars, encVars>>

\* Unicode(a).cmp(&Unicode(b))
Unicode_cmp ==
    /\ op = "new"
    /\ op' = "Unicode::cmp"
    /\ out' = UnicodeCmp(a, b)
    /\ UNCHANGED <<a, b, hm, q, found, iterVars, encVars>>

\* Unicode(a).hash(hasher)
Unicode_hash ==
    /\ op = "new"
    /\ op' = "Unicode::hash"
    /\ out' = UnicodeHash(a)
    /\ UNCHANGED <<a, b, hm, q, found, iterVars, encVars>>

\* UniCaseNoOpt::from_ref(a) == UniCaseNoOpt::from_ref(b)
UniCaseNoOpt_eq ==
    /\ op = "new"
    /\ op' = "UniCaseNoOpt::eq"
    /\ out' = NoOptEq(from_ref(a), from_ref(b))
    /\ UNCHANGED <<a, b, hm, q, found, iterVars, encVars>>

\* UniCase(a).borrow().hash(hasher)
UniCaseNoOpt_hash ==
    /\ op = "new"
    /\ op' = "UniCaseNoOpt::hash"
    /\ out' = NoOptHash(borrow(a))
    /\ UNCHANGED <<a, b, hm, q, found, iterVars, encVars>>

\* Any two texts as operands, no operation applied yet.
Init ==
    /\ a \in Strings
    /\ b \in Strings
    /\ op = "new"
    /\ out = <<>>
    /\ hm = {}
    /\ q = <<>>
    /\ found = FALSE
    /\ built = <<>>
    /\ fold = <<>>
    /\ yielded = <<>>
    /\ calls = 0
    /\ code = 0
    /\ buf = <<0, 0, 0, 0>>

Next ==
    \/ UniCase_eq
    \/ UniCase_hash
    \/ UniCase_cmp
    \/ Unicode_eq
    \/ Unicode_cmp
    \/ Unicode_hash
    \/ UniCaseNoOpt_eq
    \/ UniCaseNoOpt_hash

Spec == Init /\ [][Next]_vars

\* hm.insert(UniCase::new(k.to_string()))
Insert(k) ==
    /\ Cardinality(hm) < MaxKeys
    /\ hm' = HashSetInsert(hm, k)
    /\ op' = "HashSet::insert"
    /\ UNCHANGED <<a, b, out, q, found, iterVars, encVars>>

\* hm.contains(UniCaseNoOpt::from_ref(x))
Contains(x) ==
    /\ q' = x
    /\ found' = HashSetContains(hm, from_ref(x))
    /\ op' = "HashSet::contains"
    /\ UNCHANGED <<a, b, out, hm, iterVars, encVars>>

\* An empty set, then inserts and lookups.
InitSet ==
    /\ a = <<>>
    /\ b = <<>>
    /\ op = "new"
    /\ out = <<>>
    /\ hm = {}
    /\ q = <<>>
    /\ found = FALSE
    /\ built = <<>>
    /\ fold = <<>>
    /\ yielded = <<>>
    /\ calls = 0
    /\ code = 0
    /\ buf = <<0, 0, 0, 0>>

NextSet ==
    \/ \E k \in Keys : Insert(k)
    \/ \E x \in Keys : Contains(x)

SpecSet == InitSet /\ [][NextSet]_vars

(* ------------------------------ Fold iterator -------------------------- *)

\* Every Fold over the alphabet: Zero, and what the From impls build.
Folds ==
    {<<>>}
    \cup {FoldFrom1(x) : x \in Alphabet}
    \cup {FoldFrom2(x, y) : x \in Alphabet, y \in Alphabet}
    \cup {FoldFrom3(x, y, z) : x \in Alphabet, y \in Alphabet, z \in Alphabet}

\* fold.next()
Fold_next ==
    /\ calls < MaxCalls
    /\ fold' = FoldNext(fold).self
    /\ yielded' = yielded \o FoldNext(fold).item
    /\ calls' = calls + 1
    /\ op' = "Fold::next"
    /\ out' = FoldNext(fold).item
    /\ UNCHANGED <<a, b, hm, q, found, built, encVars>>

\* fold.size_hint()
Fold_size_hint ==
    /\ op' = "Fold::size_hint"
    /\ out' = FoldSizeHint(fold)
    /\ UNCHANGED <<a, b, hm, q, found, iterVars, encVars>>

\* A Fold as built, not yet iterated.
InitFold ==
    /\ a = <<>>
    /\ b = <<>>
    /\ op = "new"
    /\ out = <<>>
    /\ hm = {}
    /\ q = <<>>
    /\ found = FALSE
    /\ built \in Folds
    /\ fold = built
    /\ yielded = <<>>
    /\ calls = 0
    /\ code = 0
    /\ buf = <<0, 0, 0, 0>>

NextFold ==
    \/ Fold_next
    \/ Fold_size_hint

SpecFold == InitFold /\ [][NextFold]_vars

(* ------------------------------ Byte emitter --------------------------- *)

\* char: a Unicode scalar value, U+0000..U+10FFFF less the surrogates
\* U+D800..U+DFFF.
IsScalarValue(c) == c \notin 55296..57343

\* The buffer as the caller hands it over: fresh, or left over from before.
Buffers == {<<0, 0, 0, 0>>, <<255, 255, 255, 255>>}

\* let len = char_to_utf8(c, &mut buf)
Char_to_utf8 ==
    /\ op' = "char_to_utf8"
    /\ buf' = char_to_utf8(code, buf).dst
    /\ out' = char_to_utf8(code, buf).len
    /\ UNCHANGED <<a, b, hm, q, found, iterVars, code>>

\* Any character, and a buffer to encode it into.
InitUtf8 ==
    /\ a = <<>>
    /\ b = <<>>
    /\ op = "new"
    /\ out = <<>>
    /\ hm = {}
    /\ q = <<>>
    /\ found = FALSE
    /\ built = <<>>
    /\ fold = <<>>
    /\ yielded = <<>>
    /\ calls = 0
    /\ code \in 0..1114111
    /\ IsScalarValue(code)
    /\ buf \in Buffers

NextUtf8 == Char_to_utf8

SpecUtf8 == InitUtf8 /\ [][NextUtf8]_vars

(* ------------------------------- claims -------------------------------- *)

\* The two texts are the same but for the case of ASCII letters.
SameButAsciiCase(x, y) ==
    /\ Len(x) = Len(y)
    /\ \A i \in DOMAIN x :
           \/ x[i] = y[i]
           \/ x[i] \in 65..90 /\ y[i] = x[i] + 32
           \/ y[i] \in 65..90 /\ x[i] = y[i] + 32

\* y is x with the character at position i replaced by the run of code
\* points the fold table gives for it, as the table lists them.
ReplacedByRun(x, y, i) ==
    /\ Len(lookup(x[i])) \in {2, 3}
    /\ y = SubSeq(x, 1, i - 1) \o lookup(x[i]) \o SubSeq(x, i + 1, Len(x))

\* C1: Unicode values that compare equal feed the hasher the same bytes:
\* after Unicode(a).hash, if Unicode(a) == Unicode(b) then the bytes written
\* are those Unicode(b).hash writes.
C1_UnicodeEqualHashEqual ==
    (op = "Unicode::hash" /\ UnicodeEq(a, b)) =>
        finish(out) = finish(UnicodeHash(b))

\* C2: UniCase values that compare equal feed the hasher the same bytes,
\* none of them an ASCII capital; texts that differ only in the case of ASCII
\* letters compare equal and so hash alike.
C2_UniCaseEqualHashEqual ==
    op = "UniCase::hash" =>
        /\ \A i \in DOMAIN finish(out) : finish(out)[i] \notin 65..90
        /\ UniCaseEq(a, b) => out = UniCaseHash(b)
        /\ SameButAsciiCase(a, b) => UniCaseEq(a, b)

C2_Witness ==
    /\ op = "UniCase::hash"
    /\ a # b
    /\ ~IsAscii(a)
    /\ \E i \in DOMAIN a : a[i] \in 65..90
    /\ UniCaseEq(a, b)
    /\ out = UniCaseHash(b)

\* C3: Unicode(a) == Unicode(b) exactly when the folded streams of a and b
\* are the same sequence, of the same length.
C3_UnicodeEqIsStreamEq ==
    op = "Unicode::eq" => (out <=> FlatMapLookup(chars(a)) = FlatMapLookup(chars(b)))

\* The laws of an equivalence at the operands: r is E(a, b) as returned.
EqLaws(E(_, _), r) ==
    /\ E(a, a)
    /\ r <=> E(b, a)
    /\ r => \A c \in Strings : E(b, c) => E(a, c)

\* C4: equality is reflexive, symmetric and transitive for UniCase, Unicode
\* and UniCaseNoOpt<str>.
C4_EqIsEquivalence ==
    /\ op = "UniCase::eq" => EqLaws(UniCaseEq, out)
    /\ op = "Unicode::eq" => EqLaws(UnicodeEq, out)
    /\ op = "UniCaseNoOpt::eq" => EqLaws(NoOptEq, out)

\* C5: Unicode(a).cmp(Unicode(b)) is Equal exactly when Unicode(a) == Unicode(b).
C5_UnicodeCmpEqualIffEq ==
    op = "Unicode::cmp" => ((out = "Equal") <=> UnicodeEq(a, b))

\* C6: on ASCII texts UniCase's equality and Unicode's equality agree.
C6_AsciiEqAgrees ==
    (op = "UniCase::eq" /\ IsAscii(a) /\ IsAscii(b)) => (out <=> UnicodeEq(a, b))

\* C7: on an ASCII text the bytes UniCase's hash writes, joined, are the
\* bytes Unicode's hash writes, joined.
C7_AsciiHashAgrees ==
    (op = "UniCase::hash" /\ IsAscii(a)) => finish(out) = finish(UnicodeHash(a))

C7_Witness ==
    /\ op = "UniCase::hash"
    /\ IsAscii(a)
    /\ Len(a) >= 2
    /\ \E i \in DOMAIN a : a[i] \in 65..90
    /\ \E i \in DOMAIN a : a[i] \notin 65..90
    /\ finish(out) = finish(UnicodeHash(a))

\* C8: a lookup through the borrowed view finds a stored key whose text is
\* the text looked up, or differs from it only in the case of letters.
C8_ZeroCopyLookupFinds ==
    (op = "HashSet::contains" /\ \E e \in hm : SameButAsciiCase(e, q)) => found

\* C9: the view's equality and hashing are the owning wrapper's: UniCase's
\* eq returns what the view's eq returns on the same texts, and UniCase's
\* hash writes the bytes the hash of its borrow() writes.
C9_ViewReproducesOwner ==
    /\ op = "UniCase::eq" => (out <=> NoOptEq(from_ref(a), from_ref(b)))
    /\ op = "UniCase::hash" => finish(out) = finish(NoOptHash(borrow(a)))

\* C10: a text with a character that folds to two or three code points
\* compares equal, as Unicode, to the text with that character replaced by
\* those code points.
C10_MultiCharFoldEqualsRun ==
    (op = "Unicode::eq" /\ \E i \in DOMAIN a : ReplacedByRun(a, b, i)) => out

\* Lexicographic order of two sequences of code points, a strict prefix
\* first: x is before y.
LexLess(x, y) ==
    \E k \in 0..Len(x) :
        /\ k <= Len(y)
        /\ \A i \in 1..k : x[i] = y[i]
        /\ \/ k = Len(x) /\ k < Len(y)
           \/ k < Len(x) /\ k < Len(y) /\ x[k + 1] < y[k + 1]

\* A text with its ASCII capitals replaced by their small letters.
AsciiLowered(x) == [i \in DOMAIN x |-> IF x[i] \in 65..90 THEN x[i] + 32 ELSE x[i]]

\* C11: on ASCII texts UniCase's cmp is the lexicographic order of the
\* ASCII-lowered characters, a strict prefix ordering first, and on all texts
\* it returns Equal exactly when UniCase's eq holds.
C11_UniCaseCmpIsLoweredLex ==
    op = "UniCase::cmp" =>
        /\ (IsAscii(a) /\ IsAscii(b)) =>
              /\ out = "Less" <=> LexLess(AsciiLowered(a), AsciiLowered(b))
              /\ out = "Greater" <=> LexLess(AsciiLowered(b), AsciiLowered(a))
              /\ out = "Equal" <=> AsciiLowered(a) = AsciiLowered(b)
        /\ out = "Equal" <=> UniCaseEq(a, b)

\* Lowering decides the order: the texts as written order the other way, and
\* b is no extension of a.
C11_Witness ==
    /\ op = "UniCase::cmp"
    /\ IsAscii(a) /\ IsAscii(b)
    /\ Len(a) = Len(b)
    /\ out = "Less"
    /\ IterCmp(chars(a), chars(b)) = "Greater"

\* C12: a Fold yields its code points in the order it was built with: what
\* next() has returned so far is the start of the code points as listed.
C12_FoldYieldsInOrder ==
    /\ Len(yielded) <= Len(built)
    /\ yielded = SubSeq(built, 1, Len(yielded))

\* C14: a Fold of n code points returns Some on its first n next() calls,
\* its variant stepping down by one each call, then None for ever, staying
\* Zero; size_hint is (k, Some(k)) with k the items still to come.
C14_FoldCountsDown ==
    LET n == Len(built)
        done == IF calls <= n THEN calls ELSE n
    IN  /\ Len(yielded) = done
        /\ Len(fold) = n - done
        /\ op = "Fold::next" => (out = <<>> <=> calls > n)
        /\ op = "Fold::size_hint" => out = <<n - done, <<n - done>>>>

\* A Three drained, asked once more, then asked its size.
C14_Witness ==
    /\ op = "Fold::size_hint"
    /\ Len(built) = 3
    /\ calls = 4
    /\ fold = <<>>
    /\ Len(yielded) = 3
    /\ out = <<0, <<0>>>>

\* The code point a well-formed UTF-8 sequence of one to four bytes stands
\* for (lead byte tagged for its length, each later byte 10xxxxxx), or -1.
Utf8Decode(bs) ==
    LET cont(i) == bs[i] \in 128..191
    IN  CASE Len(bs) = 1 /\ bs[1] \in 0..127 -> bs[1]
          [] Len(bs) = 2 /\ bs[1] \in 192..223 /\ cont(2) ->
                 (bs[1] - 192) * 64 + (bs[2] - 128)
          [] Len(bs) = 3 /\ bs[1] \in 224..239 /\ cont(2) /\ cont(3) ->
                 (bs[1] - 224) * 4096 + (bs[2] - 128) * 64 + (bs[3] - 128)
          [] Len(bs) = 4 /\ bs[1] \in 240..247 /\ cont(2) /\ cont(3) /\ cont(4) ->
                 (bs[1] - 240) * 262144 + (bs[2] - 128) * 4096
                     + (bs[3] - 128) * 64 + (bs[4] - 128)
          [] OTHER -> -1

\* C13: char_to_utf8 returns 1, 2, 3 or 4 by the size of the code point
\* and leaves in the first len bytes of the buffer its standard UTF-8
\* encoding, whatever the buffer held before.
C13_CharToUtf8IsUtf8 ==
    op = "char_to_utf8" =>
        /\ out = (IF code <= 127 THEN 1
                  ELSE IF code <= 2047 THEN 2
                  ELSE IF code <= 65535 THEN 3
                  ELSE 4)
        /\ Utf8Decode(SubSeq(buf, 1, out)) = code
        /\ SubSeq(buf, 1, out) = StrBytesOfChar(code)

\* A four-byte character encoded into a buffer that held other bytes.
C13_Witness ==
    /\ op = "char_to_utf8"
    /\ code = 66560
    /\ out = 4
    /\ buf = <<240, 144, 144, 128>>

====
